---------------------------- MODULE Spec2Model ----------------------------
(***************************************************************************)
(* A model of the quantitative logic of the Kuiper SQE dashboard:          *)
(*   - the p-chart control limits of pages/failure_analysis_hub.py,        *)
(*   - the Cpk computation of pages/supplier_deep_dive.py,                 *)
(*   - the weighted supplier scorer of pages/npi_and_sourcing.py,          *)
(*   - one browser session in which the five pages are rendered in any     *)
(*     order (Kuiper_Command_Center.py and the four pages).                *)
(*                                                                         *)
(* Numbers.  The Python code computes in IEEE doubles.  Here every finite  *)
(* value is an exact rational [n, d] (d > 0, lowest terms), and a value    *)
(* that involves the one square root of the p-chart is kept as the surd    *)
(* c + s*sqrt(r) with rational c, r and s in {-1, 1}; comparisons against  *)
(* it are decided exactly by comparing squares.  The non-finite doubles    *)
(* the code can produce (nan, +inf, -inf) are values of their own, with    *)
(* numpy's rules for them.  Rounding of the last bit of a double is not    *)
(* modelled.                                                               *)
(***************************************************************************)
EXTENDS Integers, Sequences, FiniteSets, TLC

VARIABLES
    spc_df,        \* failure_analysis_hub.py: the lot table fed to the p-chart
    limits,        \* failure_analysis_hub.py: p_bar, n_bar, ucl, lcl, ooc of one run
    process_data,  \* supplier_deep_dive.py: the Vt measurements plotted
    capability,    \* supplier_deep_dive.py: cpu, cpl, cpk of one run
    input_df,      \* npi_and_sourcing.py: the raw sourcing table
    sliders,       \* npi_and_sourcing.py: the four weight sliders (widget state)
    npi,           \* npi_and_sourcing.py: what one run of the decision tab produced
    session_state, \* st.session_state: a dict, key -> value
    rng,           \* numpy's global random generator
    cache,         \* st.cache_data: function name -> the value it returned
    page,          \* the page rendered last and what the run came to
    visited        \* the pages rendered so far in the session

session_vars == <<session_state, rng, cache, page, visited>>

vars == <<spc_df, limits, process_data, capability, input_df, sliders, npi,
          session_state, rng, cache, page, visited>>

NotRun == [status |-> "not_run"]

\* No page has been rendered: an empty session and an empty cache.
NoSession ==
    /\ session_state = <<>>
    /\ rng = [mult |-> 1, state |-> 0]
    /\ cache = <<>>
    /\ page = NotRun
    /\ visited = {}

---------------------------------------------------------------------------
(* Exact rationals.                                                        *)

Abs(x) == IF x < 0 THEN -x ELSE x

RECURSIVE GCD(_, _)
GCD(a, b) == IF b = 0 THEN a ELSE GCD(b, a % b)

\* n/d in lowest terms with a positive denominator (d # 0).
Rat(n, d) ==
    LET g == GCD(Abs(n), Abs(d))
        s == IF d < 0 THEN -1 ELSE 1
    IN  [n |-> s * (n \div g), d |-> s * (d \div g)]

RInt(i) == [n |-> i, d |-> 1]

RAdd(x, y) ==
    LET g == GCD(x.d, y.d)
    IN  Rat(x.n * (y.d \div g) + y.n * (x.d \div g), (x.d \div g) * y.d)

RNeg(x) == [n |-> -x.n, d |-> x.d]

RSub(x, y) == RAdd(x, RNeg(y))

RMul(x, y) ==
    LET a == Rat(x.n, y.d)
        b == Rat(y.n, x.d)
    IN  [n |-> a.n * b.n, d |-> a.d * b.d]

\* x / y for y # 0.
RDiv(x, y) == RMul(x, Rat(y.d, y.n))

RLess(x, y) ==
    LET g == GCD(x.d, y.d)
    IN  x.n * (y.d \div g) < y.n * (x.d \div g)

RLeq(x, y) == ~RLess(y, x)

RSign(x) == IF x.n > 0 THEN 1 ELSE IF x.n < 0 THEN -1 ELSE 0

RZero == RInt(0)
ROne == RInt(1)

---------------------------------------------------------------------------
(* Doubles: nan, +inf, -inf, a rational, or a surd c + s*sqrt(r).          *)

FNaN == [k |-> "nan"]
FInf(s) == [k |-> "inf", s |-> s]
FNum(q) == [k |-> "num", q |-> q]
FSurd(c, s, r) == IF r.n = 0 THEN FNum(c) ELSE [k |-> "surd", c |-> c, s |-> s, r |-> r]

\* numpy true division of two integers: x/0 is nan for x = 0 and a signed
\* infinity otherwise (a RuntimeWarning, no exception).
FDivInt(a, b) ==
    IF b = 0
    THEN IF a = 0 THEN FNaN ELSE FInf(IF a > 0 THEN 1 ELSE -1)
    ELSE FNum(Rat(a, b))

\* 1 - x
FOneMinus(x) ==
    CASE x.k = "nan" -> FNaN
      [] x.k = "inf" -> FInf(-x.s)
      [] OTHER       -> FNum(RSub(ROne, x.q))

\* x * y of two doubles that are nan, infinite or rational.
FMul(x, y) ==
    CASE x.k = "nan" \/ y.k = "nan" -> FNaN
      [] x.k = "inf" /\ y.k = "inf" -> FInf(x.s * y.s)
      [] x.k = "inf" -> IF RSign(y.q) = 0 THEN FNaN ELSE FInf(x.s * RSign(y.q))
      [] y.k = "inf" -> IF RSign(x.q) = 0 THEN FNaN ELSE FInf(y.s * RSign(x.q))
      [] OTHER       -> FNum(RMul(x.q, y.q))

\* x / y of two doubles; y is nan, or a rational >= 0 (a mean of the lot sizes).
FDiv(x, y) ==
    CASE x.k = "nan" \/ y.k = "nan" -> FNaN
      [] x.k = "inf" -> FInf(x.s)
      [] RSign(y.q) = 0 ->
            IF RSign(x.q) = 0 THEN FNaN ELSE FInf(RSign(x.q))
      [] OTHER       -> FNum(RDiv(x.q, y.q))

\* 3 * np.sqrt(x): nan for nan and for a negative x, +inf for +inf, and for a
\* rational x >= 0 the surd 0 + sqrt(9x).
FThreeSqrt(x) ==
    CASE x.k = "nan" -> FNaN
      [] x.k = "inf" -> IF x.s > 0 THEN FInf(1) ELSE FNaN
      [] RSign(x.q) < 0 -> FNaN
      [] OTHER       -> FSurd(RZero, 1, RMul(RInt(9), x.q))

\* p + t and p - t, with p nan, infinite or rational and t = FThreeSqrt(..).
FPlusMinus(p, sgn, t) ==
    CASE p.k = "nan" \/ t.k = "nan" -> FNaN
      [] p.k = "inf" /\ t.k = "inf" -> IF p.s = sgn * t.s THEN FInf(p.s) ELSE FNaN
      [] p.k = "inf" -> FInf(p.s)
      [] t.k = "inf" -> FInf(sgn * t.s)
      [] t.k = "num" -> FNum(p.q)
      [] OTHER       -> FSurd(p.q, sgn, t.r)

\* x > 0 for a surd x = c + s*sqrt(r), r > 0.
SurdPositive(x) ==
    IF x.s = 1
    THEN RSign(x.c) >= 0 \/ RLess(RMul(x.c, x.c), x.r)
    ELSE RSign(x.c) > 0 /\ RLess(x.r, RMul(x.c, x.c))

\* The surd x - q, for a surd or rational x and a rational q.
Shift(x, q) ==
    IF x.k = "num" THEN FNum(RSub(x.q, q)) ELSE FSurd(RSub(x.c, q), x.s, x.r)

\* The sign (-1, 0, 1) of a finite double.
FinSign(x) ==
    IF x.k = "num" THEN RSign(x.q)
    ELSE IF RMul(x.c, x.c) = x.r /\ RSign(x.c) = -x.s THEN 0
    ELSE IF SurdPositive(x) THEN 1 ELSE -1

Finite(x) == x.k \in {"num", "surd"}

\* a > b on doubles, a nan, infinite or rational: False whenever one is nan.
FGreater(a, b) ==
    CASE a.k = "nan" \/ b.k = "nan" -> FALSE
      [] a.k = "inf" -> IF a.s > 0 THEN ~(b.k = "inf" /\ b.s > 0) ELSE FALSE
      [] b.k = "inf" -> b.s < 0
      [] OTHER       -> FinSign(Shift(b, a.q)) < 0

\* a < b on doubles, a nan, infinite or rational: False whenever one is nan.
FLess(a, b) ==
    CASE a.k = "nan" \/ b.k = "nan" -> FALSE
      [] a.k = "inf" -> IF a.s < 0 THEN ~(b.k = "inf" /\ b.s < 0) ELSE FALSE
      [] b.k = "inf" -> b.s > 0
      [] OTHER       -> FinSign(Shift(b, a.q)) > 0

\* Python's max(0, x): x when x > 0, else the first argument (also for nan).
PyMax0(x) ==
    CASE x.k = "nan" -> FNum(RZero)
      [] x.k = "inf" -> IF x.s > 0 THEN x ELSE FNum(RZero)
      [] OTHER       -> IF FinSign(x) > 0 THEN x ELSE FNum(RZero)

---------------------------------------------------------------------------
(* pages/failure_analysis_hub.py: the p-chart.                             *)

MaxLots == 3

\* The lot sizes and defect counts the input tables are built from.  The
\* generator of the page draws lot sizes in 1000..1499 and defect counts in
\* 5..14 (two lots carry 35 and 42); the calculation below is checked as a
\* function of its table, on small lots, rows that break the lot-sample data
\* model (lot_size 0, defects < 0, defects > lot_size) included.
LotSizes == {0, 4, 9}
DefectCounts == {-1, 0, 2, 4, 9, 10}

Lot == [lot_size : LotSizes, defects : DefectCounts]

LotTables == UNION {[1..n -> Lot] : n \in 0..MaxLots}

RECURSIVE SumOf(_, _)
\* Series.sum(): the sum of column col ("lot_size", "defects") of table df.
SumOf(df, col) ==
    IF df = <<>> THEN 0 ELSE df[1][col] + SumOf(Tail(df), col)

\* lots['p'] = lots['defects'] / lots['lot_size']
PColumn(df) == [i \in 1..Len(df) |-> FDivInt(df[i].defects, df[i].lot_size)]

RECURSIVE SumOfProportions(_)
SumOfProportions(df) ==
    IF df = <<>> THEN RZero
    ELSE RAdd(Rat(df[1].defects, df[1].lot_size), SumOfProportions(Tail(df)))

\* A slip: the mean of the per-lot proportions instead of the pooled proportion.
PBar_MeanOfProportions(df) ==
    IF Len(df) = 0 \/ \E i \in 1..Len(df) : df[i].lot_size = 0
    THEN FNaN
    ELSE FNum(RDiv(SumOfProportions(df), RInt(Len(df))))

\* p_bar = spc_df['defects'].sum() / spc_df['lot_size'].sum()
PBar(df) == FDivInt(SumOf(df, "defects"), SumOf(df, "lot_size"))

\* A slip: the number of lots in place of their mean size.
NBar_LotCount(df) == FDivInt(Len(df) * Len(df), Len(df))

\* A slip: the factor p_bar left out under the root.
ThreeSigma_NoPBar(p_bar, n_bar) == FThreeSqrt(FDiv(FOneMinus(p_bar), n_bar))

\* n_bar = spc_df['lot_size'].mean(): nan for an empty column.
NBar(df) ==
    IF Len(df) = 0 THEN FNaN ELSE FNum(Rat(SumOf(df, "lot_size"), Len(df)))

\* 3 * np.sqrt((p_bar * (1 - p_bar)) / n_bar)
ThreeSigma(p_bar, n_bar) ==
    FThreeSqrt(FDiv(FMul(p_bar, FOneMinus(p_bar)), n_bar))

\* A slip: the three sigma subtracted in the upper limit.
Ucl_MinusSlip(p_bar, n_bar) == FPlusMinus(p_bar, -1, ThreeSigma(p_bar, n_bar))

\* ucl = p_bar + 3 * np.sqrt(...)
Ucl(p_bar, n_bar) == FPlusMinus(p_bar, 1, ThreeSigma(p_bar, n_bar))

\* lcl = max(0, p_bar - 3 * np.sqrt(...))
Lcl(p_bar, n_bar) == PyMax0(FPlusMinus(p_bar, -1, ThreeSigma(p_bar, n_bar)))

\* A slip: >= and <= in place of > and <.
Ooc_Inclusive(p, ucl, lcl) == ~FLess(p, ucl) \/ ~FGreater(p, lcl)

\* spc_df['ooc'] = (spc_df['p'] > ucl) | (spc_df['p'] < lcl)
Ooc(p, ucl, lcl) == FGreater(p, ucl) \/ FLess(p, lcl)

\* Lines 39-41 on table df: no input is rejected, every table gets a result.
ControlLimits(df) ==
    LET p_bar == PBar(df)
        n_bar == NBar(df)
        ucl   == Ucl(p_bar, n_bar)
        lcl   == Lcl(p_bar, n_bar)
        p     == PColumn(df)
    IN  [status |-> "ok", p_bar |-> p_bar, n_bar |-> n_bar, ucl |-> ucl, lcl |-> lcl,
         ooc |-> [i \in 1..Len(df) |-> Ooc(p[i], ucl, lcl)]]

\* One run of the p-chart section of the page on the table it was given.
RunControlLimits ==
    /\ limits = NotRun
    /\ limits' = ControlLimits(spc_df)
    /\ UNCHANGED <<spc_df, process_data, capability, input_df, sliders, npi>>
    /\ UNCHANGED session_vars

\* A single lot of 1000 parts with 10 defects.
ScenarioSamples == <<[lot_size |-> 1000, defects |-> 10]>>

InitLimits ==
    /\ spc_df \in LotTables \cup {ScenarioSamples}
    /\ limits = NotRun
    /\ process_data = <<>>
    /\ capability = NotRun
    /\ input_df = <<>>
    /\ sliders = <<>>
    /\ npi = NotRun
    /\ NoSession

NextLimits == RunControlLimits

SpecLimits == InitLimits /\ [][NextLimits]_vars

---------------------------------------------------------------------------
(* Claims about the p-chart, checked under SpecLimits.                     *)

\* The lot-sample data model: at least one lot, every lot_size positive,
\* 0 <= defects <= lot_size.
ValidTable(df) ==
    /\ Len(df) >= 1
    /\ \A i \in 1..Len(df) :
          df[i].lot_size > 0 /\ 0 <= df[i].defects /\ df[i].defects <= df[i].lot_size

TotalDefects == SumOf(spc_df, "defects")
TotalLots == SumOf(spc_df, "lot_size")

\* The numerator of 9 * p(1-p)/n over the denominator TotalLots^3, with
\* p = TotalDefects/TotalLots and n = TotalLots/Len(spc_df).
WidthSqNum == 9 * TotalDefects * (TotalLots - TotalDefects) * Len(spc_df)
WidthSqDen == TotalLots * TotalLots * TotalLots

\* q = TotalDefects / TotalLots
IsPooled(q) == q.n * TotalLots = TotalDefects * q.d

\* r = 9 * p(1-p)/n
IsWidthSq(r) == r = Rat(WidthSqNum, WidthSqDen)

\* p - 3*sqrt(p(1-p)/n) > 0
LowerPositive ==
    TotalDefects * TotalLots > 9 * (TotalLots - TotalDefects) * Len(spc_df)

\* C1: for every lot-sample table the center line is the pooled proportion
\* (sum of defects over sum of lot sizes), n_bar is the mean lot size,
\* UCL = p_bar + 3*sqrt(p_bar(1-p_bar)/n_bar),
\* LCL = max(0, p_bar - 3*sqrt(p_bar(1-p_bar)/n_bar)), and LCL is never negative.
C1_PooledLimits ==
    (limits.status = "ok" /\ ValidTable(spc_df)) =>
        /\ limits.p_bar.k = "num" /\ IsPooled(limits.p_bar.q)
        /\ limits.n_bar.k = "num"
        /\ limits.n_bar.q.n * Len(spc_df) = TotalLots * limits.n_bar.q.d
        /\ IF WidthSqNum = 0
           THEN limits.ucl.k = "num" /\ IsPooled(limits.ucl.q)
           ELSE /\ limits.ucl.k = "surd" /\ limits.ucl.s = 1
                /\ IsPooled(limits.ucl.c) /\ IsWidthSq(limits.ucl.r)
        /\ IF WidthSqNum = 0
           THEN limits.lcl.k = "num" /\ IsPooled(limits.lcl.q)
           ELSE IF LowerPositive
           THEN /\ limits.lcl.k = "surd" /\ limits.lcl.s = -1
                /\ IsPooled(limits.lcl.c) /\ IsWidthSq(limits.lcl.r)
           ELSE limits.lcl = FNum(RZero)
        /\ FinSign(limits.lcl) >= 0

\* A valid table of lots of different sizes, with defects, whose LCL is not
\* clamped to 0, has had its limits computed.
C1_Witness ==
    /\ limits.status = "ok" /\ ValidTable(spc_df)
    /\ \E i, j \in 1..Len(spc_df) :
          /\ spc_df[i].lot_size # spc_df[j].lot_size
          /\ spc_df[i].defects * spc_df[j].lot_size # spc_df[j].defects * spc_df[i].lot_size
    /\ limits.lcl.k = "surd"

\* C2: for every valid table, LCL <= center line <= UCL.
C2_LimitsOrdered ==
    (limits.status = "ok" /\ ValidTable(spc_df)) =>
        /\ Finite(limits.lcl) /\ Finite(limits.ucl) /\ limits.p_bar.k = "num"
        /\ ~FLess(limits.p_bar, limits.lcl)
        /\ ~FGreater(limits.p_bar, limits.ucl)

\* A valid table whose limits lie strictly on both sides of the center line.
C2_Witness ==
    /\ limits.status = "ok" /\ ValidTable(spc_df)
    /\ limits.lcl.k = "surd"
    /\ FGreater(limits.p_bar, limits.lcl)
    /\ FLess(limits.p_bar, limits.ucl)

\* Lot i's proportion lies strictly above UCL, in integers:
\* a/b - D/N > 0 and (a/b - D/N)^2 > 9 D (N - D) k / N^3.
StrictlyAbove(i) ==
    LET x == spc_df[i].defects * TotalLots - TotalDefects * spc_df[i].lot_size
    IN  /\ x > 0
        /\ x * x * TotalLots > WidthSqNum * spc_df[i].lot_size * spc_df[i].lot_size

\* Lot i's proportion lies strictly below LCL = max(0, p_bar - 3 sigma).
StrictlyBelow(i) ==
    LET x == TotalDefects * spc_df[i].lot_size - spc_df[i].defects * TotalLots
    IN  /\ x > 0
        /\ x * x * TotalLots > WidthSqNum * spc_df[i].lot_size * spc_df[i].lot_size

\* C3: a lot is flagged out-of-control exactly when its proportion defective
\* lies outside the closed interval [LCL, UCL]; a proportion equal to LCL or
\* UCL is not flagged.
C3_FlagOutsideClosedInterval ==
    (limits.status = "ok" /\ ValidTable(spc_df)) =>
        /\ Len(limits.ooc) = Len(spc_df)
        /\ \A i \in 1..Len(spc_df) :
              limits.ooc[i] <=> (StrictlyAbove(i) \/ StrictlyBelow(i))

\* One lot strictly above UCL is flagged while another, whose proportion 0
\* equals the clamped LCL, is not.
C3_Witness ==
    /\ limits.status = "ok" /\ ValidTable(spc_df)
    /\ \E i, j \in 1..Len(spc_df) :
          /\ StrictlyAbove(i) /\ limits.ooc[i]
          /\ spc_df[j].defects = 0 /\ limits.lcl = FNum(RZero) /\ ~limits.ooc[j]

\* C4: the calculation fails with InvalidInput, returning no limits or flags,
\* for an empty table, a lot_size <= 0 or a defect count outside 0..lot_size.
C4_InvalidInputRejected ==
    (limits.status # "not_run" /\ ~ValidTable(spc_df)) =>
        limits.status = "InvalidInput"

---------------------------------------------------------------------------
(* pages/supplier_deep_dive.py: process capability of the threshold        *)
(* voltage.  Voltages are in millivolts.                                   *)

USL == 500
LSL == 400
MU == 455
SIGMA == 15

MaxSamples == 3

\* The measurements the plotted sample is built from.  The page draws 200
\* values from a normal distribution around MU; the computation is checked as
\* a function of the sample, on short samples of a few values around MU,
\* samples the capability contract rejects (fewer than two measurements, no
\* spread) included.
Measurements == {440, 450, 455, 470}

SampleSets == UNION {[1..n -> Measurements] : n \in 0..MaxSamples}

\* cpu = (usl - mu) / (3 * sigma), for sigma # 0
Cpu(usl, mu, sigma) == RDiv(RSub(usl, mu), RMul(RInt(3), sigma))

\* cpl = (mu - lsl) / (3 * sigma), for sigma # 0
Cpl(lsl, mu, sigma) == RDiv(RSub(mu, lsl), RMul(RInt(3), sigma))

\* cpk = min(cpu, cpl): the first argument unless the second is smaller.
Cpk(cpu, cpl) == IF RLess(cpl, cpu) THEN cpl ELSE cpu

\* Lines 60-61: usl, lsl, mu and sigma are the literals of line 60; the
\* sample process_data is drawn on the same line and used by the plot alone.
\* A Python float division by 0.0 raises ZeroDivisionError.
Capability(usl, lsl, mu, sigma) ==
    IF sigma.n = 0
    THEN [status |-> "ZeroDivisionError"]
    ELSE LET cpu == Cpu(usl, mu, sigma)
             cpl == Cpl(lsl, mu, sigma)
         IN  [status |-> "ok", cpu |-> cpu, cpl |-> cpl, cpk |-> Cpk(cpu, cpl)]

\* One run of the Cpk panel of the page on the sample it has drawn.
RunCapability ==
    /\ capability = NotRun
    /\ capability' = Capability(RInt(USL), RInt(LSL), RInt(MU), RInt(SIGMA))
    /\ UNCHANGED <<spc_df, limits, process_data, input_df, sliders, npi>>
    /\ UNCHANGED session_vars

InitCpk ==
    /\ process_data \in SampleSets
    /\ capability = NotRun
    /\ spc_df = <<>>
    /\ limits = NotRun
    /\ input_df = <<>>
    /\ sliders = <<>>
    /\ npi = NotRun
    /\ NoSession

NextCpk == RunCapability

SpecCpk == InitCpk /\ [][NextCpk]_vars

---------------------------------------------------------------------------
(* Claims about the capability computation, checked under SpecCpk.         *)

RECURSIVE Sum(_)
Sum(xs) == IF xs = <<>> THEN 0 ELSE xs[1] + Sum(Tail(xs))

RECURSIVE SumSq(_)
SumSq(xs) == IF xs = <<>> THEN 0 ELSE xs[1] * xs[1] + SumSq(Tail(xs))

SampleN == Len(process_data)

\* n(n-1) times the sample variance (n-1 denominator) of process_data.
ScaledVariance == SampleN * SumSq(process_data) - Sum(process_data) * Sum(process_data)

\* The sample has a mean and a non-zero standard deviation.
SampleUsable == SampleN >= 2 /\ ScaledVariance > 0

\* c = (x/n) / (3*s) for the sample standard deviation s, x an integer:
\* the signs agree and 9 c^2 s^2 = (x/n)^2.
IsRatioToThreeSigma(c, x) ==
    /\ RSign(c) = (IF x > 0 THEN 1 ELSE IF x < 0 THEN -1 ELSE 0)
    /\ 9 * c.n * c.n * ScaledVariance * SampleN = c.d * c.d * x * x * (SampleN - 1)

\* n * (USL - mean) and n * (mean - LSL) of the sample.
UpperMargin == SampleN * USL - Sum(process_data)
LowerMargin == Sum(process_data) - SampleN * LSL

\* C5: mean and sample standard deviation (n-1 denominator) come from the
\* measurements supplied; CPU = (USL - mean)/(3 stddev),
\* CPL = (mean - LSL)/(3 stddev), Cpk = min(CPU, CPL).
C5_CpkFromSample ==
    (capability.status = "ok" /\ SampleUsable) =>
        /\ IsRatioToThreeSigma(capability.cpu, UpperMargin)
        /\ IsRatioToThreeSigma(capability.cpl, LowerMargin)
        /\ IsRatioToThreeSigma(capability.cpk,
                               IF UpperMargin <= LowerMargin THEN UpperMargin ELSE LowerMargin)

\* C6: the computation fails with InvalidInput, producing no Cpk, for a
\* sample of fewer than two measurements, a zero standard deviation or
\* USL <= LSL.
C6_DegenerateRejected ==
    (capability.status # "not_run" /\ (~SampleUsable \/ USL <= LSL)) =>
        capability.status = "InvalidInput"

---------------------------------------------------------------------------
(* pages/npi_and_sourcing.py: the supplier decision matrix.                *)
(* Raw metrics with decimals are scaled to integers: Cpk in hundredths,    *)
(* first pass yield in tenths of a percent, unit cost in cents, COPQ in    *)
(* tenths of a percent.  Category scores, rounded by the code to one       *)
(* decimal, are integers in tenths; a weighted score is a rational.        *)
(* An empty cell of a table is NaN in pandas: every row carries the set    *)
(* NaN of its columns that hold NaN, and the number stored under such a    *)
(* column is never read.                                                   *)

Row(name, as9100, export, scar, rad, cpk, fpy, cost, copq, ramp, util, bcp) ==
    [Supplier |-> name, AS9100D |-> as9100, ExportControl |-> export,
     ScarDays |-> scar, RadHard |-> rad, Cpk100 |-> cpk, Fpy10 |-> fpy,
     Cost100 |-> cost, Copq10 |-> copq, Ramp |-> ramp, Util |-> util, Bcp |-> bcp,
     NaN |-> {}]

\* get_sourcing_data(): the four candidates of the page.
get_sourcing_data ==
    << Row("Future Foundries LLC",  1, 1, 25, 4, 145, 991, 250, 10, 3, 70, 4),
       Row("Global Test Solutions", 1, 1, 18, 3, 135, 995, 180, 15, 4, 85, 3),
       Row("NextGen Packaging",     0, 1, 45, 2, 110, 970, 150, 50, 2, 95, 2),
       Row("AeroChip Test",         1, 1, 15, 5, 167, 998, 275,  5, 5, 65, 5) >>

\* A fifth candidate, not in the page's table, whose quality score is 80.0
\* and whose technical score is 60.0.
ScenarioRow == Row("Scenario Supplier", 1, 1, 60, 5, 100, 998, 300, 20, 3, 50, 3)

CandidatePool == get_sourcing_data \o <<ScenarioRow>>

MaxCandidates == 4

RECURSIVE Pick(_, _)
\* The rows of df whose positions are in the set keep, in df's order.
Pick(df, keep) ==
    IF df = <<>> THEN <<>>
    ELSE LET rest == Pick(Tail(df), {i - 1 : i \in keep \ {1}})
         IN  IF 1 \in keep THEN <<Head(df)>> \o rest ELSE rest

\* The candidate tables the scorer is run on: the rows of the pool, any
\* non-empty choice of at most MaxCandidates of them.
InputTables ==
    {Pick(CandidatePool, keep) :
        keep \in {k \in SUBSET (1..Len(CandidatePool)) :
                     k # {} /\ Cardinality(k) <= MaxCandidates}}

\* np.clip(x, 0, 1)
Clip01(x) == IF RLess(x, RZero) THEN RZero ELSE IF RLess(ROne, x) THEN ROne ELSE x

\* DataFrame.round(1): x to the nearest tenth, halves to the even tenth; the
\* result in tenths.
RoundTenths(x) ==
    LET t  == RMul(RInt(10), x)
        fl == t.n \div t.d
        r2 == 2 * (t.n - fl * t.d)
    IN  IF r2 < t.d THEN fl
        ELSE IF r2 > t.d THEN fl + 1
        ELSE IF fl % 2 = 0 THEN fl ELSE fl + 1

\* The raw columns each category score is computed from (lines 44-47).
RawColumns ==
    [QMS_Score   |-> {"AS9100D", "ExportControl", "ScarDays"},
     Tech_Score  |-> {"RadHard", "Cpk100", "Fpy10"},
     Cost_Score  |-> {"Cost100", "Copq10"},
     Scale_Score |-> {"Ramp", "Util", "Bcp"}]

ScoreColumns == DOMAIN RawColumns

\* The quoted unit costs that are not NaN.
QuotedCosts(df) == {df[i].Cost100 : i \in {j \in 1..Len(df) : "Cost100" \notin df[j].NaN}}

\* df['Quoted Unit Cost ($)'].min(): pandas skips NaN cells; with no cost at
\* all the minimum is NaN and so is every cost score (0 stands for it, unread).
MinCost(df) ==
    IF QuotedCosts(df) = {} THEN 0
    ELSE CHOOSE m \in QuotedCosts(df) : \A c \in QuotedCosts(df) : m <= c

\* line 44
QMS_Score(r) ==
    RAdd(RInt(r.AS9100D * 40 + r.ExportControl * 40),
         RMul(RSub(ROne, Rat(r.ScarDays, 60)), RInt(20)))

\* line 45
Tech_Score(r) ==
    RAdd(RAdd(RMul(Rat(r.RadHard, 5), RInt(40)),
              RMul(Clip01(Rat(r.Cpk100 - 100, 67)), RInt(40))),
         RMul(Clip01(Rat(r.Fpy10 - 970, 28)), RInt(20)))

\* line 46
Cost_Score(r, min_cost) ==
    RAdd(RMul(Rat(min_cost, r.Cost100), RInt(60)),
         RMul(RSub(ROne, Rat(r.Copq10, 100)), RInt(40)))

\* line 47
Scale_Score(r) ==
    RAdd(RAdd(RMul(Rat(r.Ramp, 5), RInt(40)),
              RMul(RSub(ROne, Rat(r.Util, 100)), RInt(30))),
         RMul(Rat(r.Bcp, 5), RInt(30)))

\* calculate_scores(df): the four category scores of every row, rounded to
\* one decimal.
\* Arithmetic, np.clip and round on a NaN cell give NaN: a score is NaN
\* when one of its raw columns is.  No cell is checked or rejected.
calculate_scores(df) ==
    [i \in 1..Len(df) |->
        LET nan == {c \in ScoreColumns : RawColumns[c] \cap df[i].NaN # {}}
        IN  [Supplier    |-> df[i].Supplier,
             QMS_Score   |-> IF "QMS_Score" \in nan THEN 0
                             ELSE RoundTenths(QMS_Score(df[i])),
             Tech_Score  |-> IF "Tech_Score" \in nan THEN 0
                             ELSE RoundTenths(Tech_Score(df[i])),
             Cost_Score  |-> IF "Cost_Score" \in nan THEN 0
                             ELSE RoundTenths(Cost_Score(df[i], MinCost(df))),
             Scale_Score |-> IF "Scale_Score" \in nan THEN 0
                             ELSE RoundTenths(Scale_Score(df[i])),
             NaN         |-> nan]]

\* The sliders of lines 60-63 and their defaults.
SliderKeys == {"w_qms", "w_tech", "w_scale", "w_cost"}
SliderDefaults == [w_qms |-> 30, w_tech |-> 40, w_scale |-> 20, w_cost |-> 10]

\* The positions a slider is moved to (a slider offers every integer 0..100).
SliderPositions == {0, 1, 14, 34, 50, 51}

\* total_weight = w_qms + w_tech + w_cost + w_scale
TotalWeight(w) == w.w_qms + w.w_tech + w.w_cost + w.w_scale

\* A slip: only a total above 100 is refused.
WeightsRejected_OnlyAbove(total_weight) == total_weight > 100

\* if total_weight != 100: st.error(...); st.stop()
WeightsRejected(total_weight) == total_weight # 100

\* The terms of line 72 in the order they are added: the score column and
\* the slider that weighs it.
CategoryOrder ==
    << <<"QMS_Score", "w_qms">>, <<"Tech_Score", "w_tech">>,
       <<"Cost_Score", "w_cost">>, <<"Scale_Score", "w_scale">> >>

RECURSIVE WeightedSum(_, _, _)
\* The sum over the terms of order of row[score] * w[slider] / 100, the
\* scores in tenths: a number of points.
WeightedSum(row, w, order) ==
    IF order = <<>> THEN RZero
    ELSE RAdd(Rat(row[order[1][1]] * w[order[1][2]], 1000),
              WeightedSum(row, w, Tail(order)))

\* A slip: the cost weight on the scale score and the scale weight on the
\* cost score (the sliders are laid out scale before cost, the sum cost
\* before scale).
Weighted_Score_Swapped(row, w) ==
    WeightedSum(row, w, << <<"QMS_Score", "w_qms">>, <<"Tech_Score", "w_tech">>,
                           <<"Cost_Score", "w_scale">>, <<"Scale_Score", "w_cost">> >>)

\* A slip: the divisions by 100 left out.
Weighted_Score_Unscaled(row, w) == RMul(RInt(100), WeightedSum(row, w, CategoryOrder))

\* final_df['Weighted_Score'] of one row (line 72)
Weighted_Score(row, w) == WeightedSum(row, w, CategoryOrder)

\* final_df: scored_df with the Weighted_Score column.  NaN * w / 100 is
\* NaN whatever w is, 0 included, and a sum with a NaN term is NaN.
FinalDf(scored_df, w) ==
    [i \in 1..Len(scored_df) |->
        [Supplier       |-> scored_df[i].Supplier,
         QMS_Score      |-> scored_df[i].QMS_Score,
         Tech_Score     |-> scored_df[i].Tech_Score,
         Cost_Score     |-> scored_df[i].Cost_Score,
         Scale_Score    |-> scored_df[i].Scale_Score,
         Weighted_Score |-> IF scored_df[i].NaN # {} THEN RZero
                            ELSE Weighted_Score(scored_df[i], w),
         NaN            |-> IF scored_df[i].NaN # {}
                            THEN scored_df[i].NaN \cup {"Weighted_Score"}
                            ELSE {}]]

\* The rows of final_df whose weighted score is a number.
Scored(final_df) == {i \in 1..Len(final_df) : "Weighted_Score" \notin final_df[i].NaN}

\* final_df.sort_values("Weighted_Score", ascending=False): the default sort
\* kind is quicksort, which is not stable, so rows of equal score come out in
\* any order.  Rows whose score is NaN are put last (na_position='last').
\* The set of tables the call can return.
SortValues(final_df) ==
    {[i \in 1..Len(final_df) |-> final_df[p[i]]] :
        p \in {q \in Permutations(1..Len(final_df)) :
                 \A i \in 1..(Len(final_df) - 1) :
                    \/ q[i + 1] \notin Scored(final_df)
                    \/ /\ q[i] \in Scored(final_df)
                       /\ RLeq(final_df[q[i + 1]].Weighted_Score,
                               final_df[q[i]].Weighted_Score)}}

\* final_df['Weighted_Score'].idxmax(): the first row holding the maximum;
\* NaN scores are skipped (skipna=True).  Some row has a score.
IdxMax(final_df) ==
    CHOOSE i \in Scored(final_df) :
        /\ \A j \in Scored(final_df) :
              RLeq(final_df[j].Weighted_Score, final_df[i].Weighted_Score)
        /\ \A j \in Scored(final_df) :
              j < i => RLess(final_df[j].Weighted_Score, final_df[i].Weighted_Score)

\* Lines 57-85 on table df with slider values w: every result one run of the
\* decision tab can show.  When every weighted score is NaN the table has
\* already been shown (line 75) and line 84 raises: idxmax of an all-NaN
\* column raises ValueError, or returns NaN on which .loc raises KeyError,
\* as the pandas release has it.
DecisionTab(df, w) ==
    IF WeightsRejected(TotalWeight(w))
    THEN {[status |-> "error", total_weight |-> TotalWeight(w)]}
    ELSE LET final_df == FinalDf(calculate_scores(df), w)
         IN  IF Scored(final_df) = {}
             THEN {[status    |-> "KeyError or ValueError",
                    final_df  |-> final_df,
                    displayed |-> shown] : shown \in SortValues(final_df)}
             ELSE {[status      |-> "ok",
                    final_df    |-> final_df,
                    displayed   |-> shown,
                    recommended |-> final_df[IdxMax(final_df)].Supplier] :
                      shown \in SortValues(final_df)}

\* A run of the page with the sliders as they stand.
Rerun ==
    /\ input_df # <<>>
    /\ npi' \in DecisionTab(input_df, sliders)
    /\ UNCHANGED <<spc_df, limits, process_data, capability, input_df, sliders>>
    /\ UNCHANGED session_vars

\* The user moves one slider; the page runs again with the new value.
MoveSlider ==
    /\ input_df # <<>>
    /\ \E k \in SliderKeys, v \in SliderPositions :
          /\ v # sliders[k]
          /\ sliders' = [sliders EXCEPT ![k] = v]
    /\ npi' \in DecisionTab(input_df, sliders')
    /\ UNCHANGED <<spc_df, limits, process_data, capability, input_df>>
    /\ UNCHANGED session_vars

InitScore ==
    /\ input_df \in InputTables
    /\ sliders = SliderDefaults
    /\ npi = NotRun
    /\ spc_df = <<>>
    /\ limits = NotRun
    /\ process_data = <<>>
    /\ capability = NotRun
    /\ NoSession

NextScore == Rerun \/ MoveSlider

\* The scorer on every candidate table of InputTables.
SpecScore == InitScore /\ [][NextScore]_vars

\* The page as it is: the table is get_sourcing_data().
InitNpiPage == InitScore /\ input_df = get_sourcing_data

SpecNpiPage == InitNpiPage /\ [][NextScore]_vars

---------------------------------------------------------------------------
(* Claims about the scorer.                                                *)

SliderTotal == sliders.w_qms + sliders.w_tech + sliders.w_scale + sliders.w_cost

\* C7: each candidate's weighted score is the sum over the four weighted
\* categories of sub_score * weight / 100, every category once; weights
\* 50/50 on sub-scores 80 and 60 give 70.  (Scores are in tenths.)
C7_WeightedScoreIsWeightedSum ==
    npi.status = "ok" =>
        \A i \in 1..Len(npi.final_df) :
            LET r == npi.final_df[i]
            IN  /\ r.Weighted_Score.n * 1000 =
                      r.Weighted_Score.d *
                          ( r.QMS_Score * sliders.w_qms + r.Tech_Score * sliders.w_tech
                          + r.Cost_Score * sliders.w_cost + r.Scale_Score * sliders.w_scale )
                /\ ( /\ sliders.w_qms = 50 /\ sliders.w_tech = 50
                     /\ sliders.w_cost = 0 /\ sliders.w_scale = 0
                     /\ r.QMS_Score = 800 /\ r.Tech_Score = 600 )
                   => r.Weighted_Score = RInt(70)

\* With weights 50/50/0/0 a candidate of sub-scores 80.0 and 60.0 has been
\* scored 70.
C7_Witness ==
    /\ npi.status = "ok"
    /\ sliders.w_qms = 50 /\ sliders.w_tech = 50
    /\ \E i \in 1..Len(npi.final_df) :
          /\ npi.final_df[i].QMS_Score = 800 /\ npi.final_df[i].Tech_Score = 600
          /\ npi.final_df[i].Weighted_Score = RInt(70)

\* C8: when the weights do not sum to exactly 100 the run reports an error
\* and holds no weighted score, ranking or recommendation; a weighted score
\* exists only when they sum to exactly 100.
C8_OnlyExactlyHundred ==
    npi.status # "not_run" =>
        IF SliderTotal = 100
        THEN /\ npi.status = "ok"
             /\ DOMAIN npi = {"status", "final_df", "displayed", "recommended"}
        ELSE /\ npi.status = "error"
             /\ DOMAIN npi = {"status", "total_weight"}
             /\ npi.total_weight = SliderTotal

\* Weights summing to 99 have been refused.
C8_Witness == npi.status = "error" /\ SliderTotal = 99 /\ npi.total_weight = 99

\* The candidate names in ascending (code point) order.
NamesAscending ==
    << "AeroChip Test", "Future Foundries LLC", "Global Test Solutions",
       "NextGen Packaging", "Scenario Supplier" >>

NameRank(name) == CHOOSE i \in 1..Len(NamesAscending) : NamesAscending[i] = name

\* C9: the list shown is in descending order of weighted score, and
\* candidates of equal weighted score are in ascending order of name.
C9_TiesByNameAscending ==
    npi.status = "ok" =>
        \A i, j \in 1..Len(npi.displayed) :
            i < j =>
                \/ RLess(npi.displayed[j].Weighted_Score, npi.displayed[i].Weighted_Score)
                \/ /\ npi.displayed[j].Weighted_Score = npi.displayed[i].Weighted_Score
                   /\ NameRank(npi.displayed[i].Supplier) < NameRank(npi.displayed[j].Supplier)

Permuted(seq, p) == [i \in 1..Len(seq) |-> seq[p[i]]]

ScoreOfEach(result) ==
    {<<result.final_df[i].Supplier, result.final_df[i].Weighted_Score>> :
        i \in 1..Len(result.final_df)}

Ranking(result) == [i \in 1..Len(result.displayed) |-> result.displayed[i].Supplier]

\* C10: the weighted scores, the ranking and the recommendation are the
\* same for every order of the candidate table and every order of the
\* weight categories, ties included.
C10_OrderInvariant ==
    npi.status = "ok" =>
        /\ \A p \in Permutations(1..Len(input_df)) :
              \A other \in DecisionTab(Permuted(input_df, p), sliders) :
                  /\ ScoreOfEach(other) = ScoreOfEach(npi)
                  /\ Ranking(other) = Ranking(npi)
                  /\ other.recommended = npi.recommended
        /\ \A p \in Permutations(1..Len(CategoryOrder)) :
              \A i \in 1..Len(npi.final_df) :
                  WeightedSum(npi.final_df[i], sliders, Permuted(CategoryOrder, p))
                      = npi.final_df[i].Weighted_Score


---------------------------------------------------------------------------
(* The scorer on candidates it was not written around: calculate_scores    *)
(* takes any table of raw metrics.                                         *)

\* A candidate at the weak end of every declared range: no certificate, not
\* export compliant, SCARs closed in 90 days, ratings of 1, Cpk 0.90, first
\* pass yield 95.0 %, COPQ 50.0 % of spend, capacity fully used.
ToughRow == Row("Uncertified Vendor", 0, 0, 90, 1, 90, 950, 300, 500, 1, 100, 1)

\* A candidate at the strong end of every declared range.
IdealRow == Row("Ideal Vendor", 1, 1, 0, 5, 200, 1000, 100, 0, 5, 0, 5)

\* Row r with the cells of columns cols empty.
EmptyCell(r, cols) == [r EXCEPT !.NaN = cols]

\* The cells left empty, one at a time: one raw column of each category.
EmptiedColumns == {"ScarDays", "Cpk100", "Cost100", "Bcp"}

MetricTables ==
    {get_sourcing_data \o <<r>> : r \in {ToughRow, IdealRow}}
    \cup {<<ToughRow>>, <<IdealRow>>, <<IdealRow, ToughRow>>}
    \cup {[get_sourcing_data EXCEPT ![i] = EmptyCell(@, {c})] :
             i \in 1..Len(get_sourcing_data), c \in EmptiedColumns}
    \cup {<<EmptyCell(IdealRow, {c})>> : c \in EmptiedColumns}

InitMetrics ==
    /\ input_df \in MetricTables
    /\ sliders = SliderDefaults
    /\ npi = NotRun
    /\ spc_df = <<>>
    /\ limits = NotRun
    /\ process_data = <<>>
    /\ capability = NotRun
    /\ NoSession

\* The decision tab on the tables of MetricTables.
SpecMetrics == InitMetrics /\ [][NextScore]_vars

\* Some candidate of the table lacks a raw metric.
SomeCellEmpty == \E i \in 1..Len(input_df) : input_df[i].NaN # {}

\* C11: with weights summing to 100, a table in which a candidate lacks a
\* raw metric of a weighted category is refused with InvalidInput, no
\* ranking is produced, and no weighted score is NaN.
C11_MissingMetricRejected ==
    (npi.status # "not_run" /\ SliderTotal = 100 /\ SomeCellEmpty) =>
        /\ npi.status = "InvalidInput"
        /\ DOMAIN npi = {"status"}

\* The raw metrics of row r are in the ranges their column names declare.
InDeclaredRange(r) ==
    /\ r.AS9100D \in {0, 1} /\ r.ExportControl \in {0, 1}
    /\ r.ScarDays >= 0
    /\ r.RadHard \in 1..5 /\ r.Ramp \in 1..5 /\ r.Bcp \in 1..5
    /\ r.Fpy10 \in 0..1000 /\ r.Copq10 \in 0..1000 /\ r.Util \in 0..100
    /\ r.Cost100 > 0

\* C17: for candidates whose raw metrics are in their declared ranges, each
\* of the four category scores is between 0 and 100 (0 and 1000 tenths).
C17_SubScoresInRange ==
    (npi.status = "ok" /\ ~SomeCellEmpty
        /\ \A i \in 1..Len(input_df) : InDeclaredRange(input_df[i])) =>
        \A i \in 1..Len(npi.final_df) : \A c \in ScoreColumns :
            npi.final_df[i][c] >= 0 /\ npi.final_df[i][c] <= 1000


---------------------------------------------------------------------------
(* More claims about the Cpk computation, checked under SpecCpk.           *)

\* The sample mean is exactly (USL + LSL) / 2.
SampleCentred == 2 * Sum(process_data) = SampleN * (USL + LSL)

\* Six sample standard deviations are exactly USL - LSL:
\* 36 * s^2 = (USL - LSL)^2 with s^2 = ScaledVariance / (n * (n - 1)).
SixSigmaIsTolerance ==
    36 * ScaledVariance = SampleN * (SampleN - 1) * (USL - LSL) * (USL - LSL)

\* C14: for a sample whose mean is exactly centred between the limits,
\* CPU = CPL; when also 6 * sigma = USL - LSL, CPU = CPL = Cpk = 1.
C14_CentredProcess ==
    (capability.status = "ok" /\ SampleUsable /\ SampleCentred) =>
        /\ capability.cpu = capability.cpl
        /\ SixSigmaIsTolerance =>
              capability.cpu = ROne /\ capability.cpl = ROne /\ capability.cpk = ROne


---------------------------------------------------------------------------
(* More claims about the p-chart, checked under SpecLimits.                *)

\* lo < x < hi for a finite double x and rationals lo, hi.
Between(x, lo, hi) == FLess(FNum(lo), x) /\ FGreater(FNum(hi), x)

\* The limits of the single lot of 1000 parts with 10 defects are computed.
ScenarioComputed == limits.status = "ok" /\ spc_df = ScenarioSamples

\* C15 as stated: for the single lot {lot_size: 1000, defects: 10},
\* p_bar = 0.01, n_bar = 1000, UCL is about 0.0395 (within 0.0005) and LCL
\* is about 0 (within 0.001).
C15_ScenarioAsStated ==
    ScenarioComputed =>
        /\ limits.p_bar = FNum(Rat(1, 100))
        /\ limits.n_bar = FNum(RInt(1000))
        /\ Between(limits.ucl, Rat(390, 10000), Rat(400, 10000))
        /\ Between(limits.lcl, Rat(-1, 1000), Rat(1, 1000))

\* C15, amended: for the single lot {lot_size: 1000, defects: 10},
\* p_bar = 0.01, n_bar = 1000, UCL = 0.01 + 3*sqrt(0.0000099) lies between
\* 0.0194 and 0.0195 and LCL = 0.01 - 3*sqrt(0.0000099) between 0.0005 and
\* 0.0006.
C15_Scenario ==
    ScenarioComputed =>
        /\ limits.p_bar = FNum(Rat(1, 100))
        /\ limits.n_bar = FNum(RInt(1000))
        /\ Between(limits.ucl, Rat(194, 10000), Rat(195, 10000))
        /\ Between(limits.lcl, Rat(5, 10000), Rat(6, 10000))

C15_Witness ==
    /\ ScenarioComputed
    /\ limits.ucl.k = "surd" /\ limits.lcl.k = "surd"
    /\ limits.ooc = <<FALSE>>

\* Every lot has a positive size and the pooled proportion is 0.
PooledZero ==
    /\ Len(spc_df) >= 1
    /\ \A i \in 1..Len(spc_df) : spc_df[i].lot_size > 0
    /\ TotalDefects = 0

\* C16: when the pooled proportion is 0, LCL = UCL = center line = 0, every
\* sample of proportion 0 is not flagged, and every sample of nonzero
\* proportion, of the table or any other, is flagged.
C16_ZeroPooledProportion ==
    (limits.status = "ok" /\ PooledZero) =>
        /\ limits.p_bar = FNum(RZero)
        /\ limits.ucl = FNum(RZero)
        /\ limits.lcl = FNum(RZero)
        /\ \A i \in 1..Len(spc_df) : limits.ooc[i] = (spc_df[i].defects # 0)
        /\ \A lot \in Lot :
              lot.lot_size > 0 =>
                  Ooc(FDivInt(lot.defects, lot.lot_size), limits.ucl, limits.lcl)
                      = (lot.defects # 0)

\* The limits of a table of pooled proportion 0 have been computed and a
\* sample without defects is not flagged.
C16_Witness ==
    /\ limits.status = "ok" /\ PooledZero
    /\ \E i \in 1..Len(spc_df) : spc_df[i].defects = 0 /\ ~limits.ooc[i]

---------------------------------------------------------------------------
(* One session.  Streamlit runs a page's script from top to bottom every   *)
(* time the page is opened or one of its widgets changes.                  *)

\* numpy's global generator (np.random).  Its algorithm is not modelled bit
\* for bit: a generator is a state in 0..RngModulus-1 stepped by
\* state * mult + 1; a draw returns the state and steps it.  The multiplier
\* and the state the session starts with are drawn per behaviour.
RngModulus == 31
Multipliers == {3, 5}
InitialStates == {0, 7}

Step(g) == [g EXCEPT !.state = (g.mult * g.state + 1) % RngModulus]

\* A slip: the call to np.random.seed left out.
seed_Ignored(g, n) == g

\* np.random.seed(n)
seed(g, n) == [g EXCEPT !.state = n % RngModulus]

RECURSIVE After(_, _)
\* The generator after k draws.
After(g, k) == IF k = 0 THEN g ELSE After(Step(g), k - 1)

RECURSIVE RawDraws(_, _)
\* The next k raw draws.
RawDraws(g, k) == IF k = 0 THEN <<>> ELSE <<g.state>> \o RawDraws(Step(g), k - 1)

\* np.random.randint(low, high) from one raw draw: low <= result < high.
randint(low, high, raw) == low + (raw % (high - low))

\* d[k] = v on a dict
Put(d, k, v) == [x \in DOMAIN d \cup {k} |-> IF x = k THEN v ELSE d[x]]

\* range(25): the lots of the p-chart
SpcLotCount == 25

\* A slip: the excursions entered as counts per 100000 parts.
WithExcursions_Scaled(base_defects) == [base_defects EXCEPT ![11] = 3500, ![22] = 4200]

\* base_defects[10] = 35; base_defects[21] = 42 (positions counted from 0)
WithExcursions(base_defects) == [base_defects EXCEPT ![11] = 35, ![22] = 42]

\* The table generate_spc_data builds from generator g: 25 lot sizes drawn,
\* then 25 defect counts, two of them overwritten, then p = defects/lot_size.
\* lot_id is the number in "L-100", "L-101", ...
SpcTable(g) ==
    LET sizes        == RawDraws(g, SpcLotCount)
        counts       == RawDraws(After(g, SpcLotCount), SpcLotCount)
        lot_size     == [i \in 1..SpcLotCount |-> randint(1000, 1500, sizes[i])]
        base_defects == [i \in 1..SpcLotCount |-> randint(5, 15, counts[i])]
        defects      == WithExcursions(base_defects)
    IN  [i \in 1..SpcLotCount |->
            [lot_id   |-> 99 + i,
             lot_size |-> lot_size[i],
             defects  |-> defects[i],
             p        |-> FDivInt(defects[i], lot_size[i])]]

\* generate_spc_data(): np.random.seed(42), then the table; the table and the
\* generator it leaves behind.
generate_spc_data(g) ==
    [df  |-> SpcTable(seed(g, 42)),
     rng |-> After(seed(g, 42), 2 * SpcLotCount)]

\* data['suppliers'] (the lat and lon columns are left out)
SupplierRows ==
    << [Supplier |-> "Global Wafer Inc.", Type |-> "Foundry", Location |-> "Austin, TX",
        Health_Score |-> 92, Open_SCARs |-> 0, AS9100D_Cert |-> "Yes"],
       [Supplier |-> "Quantum Assembly", Type |-> "OSAT", Location |-> "Penang, Malaysia",
        Health_Score |-> 78, Open_SCARs |-> 1, AS9100D_Cert |-> "Yes"],
       [Supplier |-> "AeroChip Test", Type |-> "OSAT", Location |-> "Hsinchu, Taiwan",
        Health_Score |-> 95, Open_SCARs |-> 3, AS9100D_Cert |-> "Yes"],
       [Supplier |-> "Silicon Foundry Corp.", Type |-> "Foundry", Location |-> "Phoenix, AZ",
        Health_Score |-> 85, Open_SCARs |-> 1, AS9100D_Cert |-> "Yes"],
       [Supplier |-> "PackagePro OSAT", Type |-> "OSAT", Location |-> "Manila, Philippines",
        Health_Score |-> 65, Open_SCARs |-> 4, AS9100D_Cert |-> "In Progress"] >>

\* data['failures']
FailureRows ==
    << [Failure_ID |-> "FA-001", Part_Number |-> "KU-ASIC-COM-001", Supplier |-> "PackagePro OSAT",
        Failure_Mode |-> "Wire Bond Lift", Date_Reported |-> "2023-09-15", Status |-> "Open"],
       [Failure_ID |-> "FA-002", Part_Number |-> "KU-ASIC-PWR-003", Supplier |-> "Global Wafer Inc.",
        Failure_Mode |-> "Gate Oxide Leakage", Date_Reported |-> "2023-09-10", Status |-> "Analysis"],
       [Failure_ID |-> "FA-003", Part_Number |-> "KU-ASIC-COM-001", Supplier |-> "PackagePro OSAT",
        Failure_Mode |-> "Package Crack", Date_Reported |-> "2023-08-28", Status |-> "Closed"],
       [Failure_ID |-> "FA-004", Part_Number |-> "KU-ASIC-RF-002", Supplier |-> "AeroChip Test",
        Failure_Mode |-> "ESD Damage", Date_Reported |-> "2023-08-25", Status |-> "Closed"],
       [Failure_ID |-> "FA-005", Part_Number |-> "KU-ASIC-PWR-003", Supplier |-> "PackagePro OSAT",
        Failure_Mode |-> "Wire Bond Lift", Date_Reported |-> "2023-08-20", Status |-> "Analysis"] >>

\* data['apqp_data']
ApqpRows ==
    << [Part_Number |-> "KU-ASIC-COM-002", Supplier |-> "Global Wafer Inc.",
        Stage |-> "2. Product Design", Status |-> "On Track", Owner |-> "J. Doe",
        Start |-> "2023-08-01", Finish |-> "2023-10-30"],
       [Part_Number |-> "KU-ASIC-RF-003", Supplier |-> "AeroChip Test",
        Stage |-> "4. Validation", Status |-> "At Risk", Owner |-> "S. Smith",
        Start |-> "2023-06-15", Finish |-> "2023-11-15"],
       [Part_Number |-> "KU-ASIC-MEM-001", Supplier |-> "Silicon Foundry Corp.",
        Stage |-> "5. Production", Status |-> "Approved", Owner |-> "A. Wong",
        Start |-> "2023-03-01", Finish |-> "2023-09-01"],
       [Part_Number |-> "KU-ASIC-PWR-004", Supplier |-> "PackagePro OSAT",
        Stage |-> "3. Process Design", Status |-> "On Track", Owner |-> "J. Doe",
        Start |-> "2023-09-01", Finish |-> "2023-12-20"] >>

\* The days of the date range that are modelled: its last PerfDays days
\* (the code has 273, 2023-01-01 to 2023-09-30).
PerfDays == 2

\* 'Foundry' in supplier: a test on the supplier's name
NameHasFoundry(supplier) == supplier = "Silicon Foundry Corp."

\* data['performance_data']: for every supplier and day one draw for the
\* yield and one for the DPPM.  The seasonal sine terms of lines 34-35 are
\* left out; Yield is in units of 1/RngModulus of 5 % below the base yield
\* (in thousandths), DPPM is max(0, base + randint(-10, 50)), plus 150 for
\* PackagePro OSAT after 2023-08-15, which every modelled day is.
PerformanceData(g) ==
    [k \in 1..(Len(SupplierRows) * PerfDays) |->
        LET supplier == SupplierRows[((k - 1) \div PerfDays) + 1].Supplier
            date     == ((k - 1) % PerfDays) + 1
            draws    == RawDraws(After(g, 2 * (k - 1)), 2)
            base     == IF NameHasFoundry(supplier) THEN 20 ELSE 75
            dppm_val == base + randint(-10, 50, draws[2])
        IN  [Date     |-> date,
             Supplier |-> supplier,
             Yield    |-> RSub(Rat(IF NameHasFoundry(supplier) THEN 980 ELSE 995, 1000),
                               RMul(Rat(draws[1], RngModulus), Rat(5, 100))),
             DPPM     |-> (IF dppm_val > 0 THEN dppm_val ELSE 0)
                          + (IF supplier = "PackagePro OSAT" THEN 150 ELSE 0)]]

\* generate_data(): the four tables and the generator left behind.
generate_data(g) ==
    [data |-> [suppliers        |-> SupplierRows,
               performance_data |-> PerformanceData(g),
               failures         |-> FailureRows,
               apqp_data        |-> ApqpRows],
     rng  |-> After(g, 2 * Len(SupplierRows) * PerfDays)]

\* get_status(score), lines 185-188
get_status(score) ==
    IF score < 70 THEN "Critical" ELSE IF score < 90 THEN "Warning" ELSE "Healthy"

\* suppliers['Status'] = suppliers['Health_Score'].apply(get_status): the
\* column is set on the table itself, which is the one held in session state.
AssignStatus(suppliers) ==
    [i \in DOMAIN suppliers |->
        [c \in DOMAIN suppliers[i] \cup {"Status"} |->
            IF c = "Status" THEN get_status(suppliers[i].Health_Score)
            ELSE suppliers[i][c]]]

RECURSIVE SumColumn(_, _)
SumColumn(df, col) == IF df = <<>> THEN 0 ELSE df[1][col] + SumColumn(Tail(df), col)

\* df.groupby(...).mean() of one group: the mean of column col over the
\* rows of df, every row counted.
GroupMean(df, col) == Rat(SumColumn(df, col), Len(df))

\* The window of line 82 in days.
TrendWindowDays == 30

\* perf_df[perf_df['Date'] >= perf_df['Date'].max() - pd.Timedelta(days=30)]
\*     .groupby('Date').mean(numeric_only=True).reset_index(), line 82:
\* one row per date of the window, in date order, holding the mean DPPM of
\* the rows of that date.  The frame is filtered by date alone.
agg_perf_30d(perf_df) ==
    LET last  == CHOOSE d \in {perf_df[i].Date : i \in DOMAIN perf_df} :
                    \A i \in DOMAIN perf_df : perf_df[i].Date <= d
        dates == {perf_df[i].Date : i \in DOMAIN perf_df} \cap
                    ((last - TrendWindowDays)..last)
    IN  [k \in 1..Cardinality(dates) |->
            LET date == CHOOSE d \in dates :
                           Cardinality({e \in dates : e < d}) = k - 1
            IN  [Date |-> date,
                 DPPM |-> GroupMean(SelectSeq(perf_df, LAMBDA r : r.Date = date),
                                    "DPPM")]]

\* A slip: the boundary score 70 coloured as a critical one.
color_health_Inclusive(val) ==
    IF val <= 70 THEN "indianred" ELSE IF val < 90 THEN "orange" ELSE "mediumseagreen"

\* color_health(val), lines 134-136: the background colour of a
\* Health_Score cell of the scorecard.
color_health(val) ==
    IF val < 70 THEN "indianred" ELSE IF val < 90 THEN "orange" ELSE "mediumseagreen"

\* The scorecard of lines 130-140: the suppliers table as line 130 copies
\* it, with the colour style_scorecard gives each Health_Score cell (the
\* merged Yield and DPPM columns are left out).
Scorecard(suppliers) ==
    [i \in DOMAIN suppliers |->
        [Supplier     |-> suppliers[i].Supplier,
         Type         |-> suppliers[i].Type,
         Health_Score |-> suppliers[i].Health_Score,
         Open_SCARs   |-> suppliers[i].Open_SCARs,
         colour       |-> color_health(suppliers[i].Health_Score)]]

HomePage == "Kuiper_Command_Center"
SubPages == {"apqp_ppap_tracker", "failure_analysis_hub", "npi_and_sourcing",
             "supplier_deep_dive"}

\* 'app_data' in st.session_state
AppDataLoaded(ss) == "app_data" \in DOMAIN ss

\* A slip: the page's widget state initialised above the guard.
StopAtGuard_KeysFirst(name, ss) ==
    [page          |-> [name |-> name, status |-> "stopped", read |-> {}],
     session_state |-> Put(Put(ss, "traceability_run", FALSE), "traced_lot_id", "")]

\* if 'app_data' not in st.session_state: st.error(...); st.stop()
\* The run ends there: what the page shows and the session state it leaves.
StopAtGuard(name, ss) ==
    [page          |-> [name |-> name, status |-> "stopped", read |-> {}],
     session_state |-> ss]

\* A sub-page opened before the data is loaded.
Stopped(name) ==
    /\ ~AppDataLoaded(session_state)
    /\ page' = StopAtGuard(name, session_state).page
    /\ session_state' = StopAtGuard(name, session_state).session_state
    /\ visited' = visited \cup {name}
    /\ UNCHANGED <<spc_df, limits, process_data, capability, input_df, sliders, npi,
                   rng, cache>>

\* A slip: the data stored on every run, the test of line 55 left out.
StoreAppData_Always(ss, data) ==
    [session_state |-> Put(ss, "app_data", data), stored |-> TRUE]

\* if 'app_data' not in st.session_state:
\*     st.session_state['app_data'] = generate_data()
\* The session state after lines 55-56, given what a call of generate_data()
\* returns, and whether line 56 has run.
StoreAppData(ss, data) ==
    IF AppDataLoaded(ss)
    THEN [session_state |-> ss, stored |-> FALSE]
    ELSE [session_state |-> Put(ss, "app_data", data), stored |-> TRUE]

\* Kuiper_Command_Center.py.  generate_data() runs when the session has no
\* app_data; the page then works on the tables held in the session.
RenderCommandCenter ==
    LET generated == IF "generate_data" \in DOMAIN cache
                     THEN [data |-> cache.generate_data, rng |-> rng]
                     ELSE generate_data(rng)
        store     == StoreAppData(session_state, generated.data)
        fresh     == store.stored
        app_data  == store.session_state.app_data
        suppliers == AssignStatus(app_data.suppliers)
        agg       == agg_perf_30d(app_data.performance_data)
    IN  /\ session_state' =
              Put(store.session_state, "app_data",
                  [app_data EXCEPT !.suppliers = suppliers])
        /\ rng' = IF fresh THEN generated.rng ELSE rng
        /\ cache' = IF fresh THEN Put(cache, "generate_data", generated.data) ELSE cache
        /\ page' = [name          |-> HomePage,
                    status        |-> "ok",
                    read          |-> {"suppliers", "performance_data", "failures"},
                    stored        |-> fresh,
                    agg_perf_30d  |-> agg,
                    latest_dppm   |-> agg[Len(agg)].DPPM,
                    scorecard     |-> Scorecard(app_data.suppliers),
                    avg_health    |-> SumColumn(suppliers, "Health_Score") \div Len(suppliers),
                    active_issues |-> Cardinality({i \in DOMAIN app_data.failures :
                                          app_data.failures[i].Status # "Closed"})]
        /\ visited' = visited \cup {HomePage}
        /\ UNCHANGED <<spc_df, limits, process_data, capability, input_df, sliders, npi>>

\* pages/apqp_ppap_tracker.py
RenderApqpTracker ==
    \/ Stopped("apqp_ppap_tracker")
    \/ /\ AppDataLoaded(session_state)
       /\ page' = [name |-> "apqp_ppap_tracker", status |-> "ok", read |-> {"apqp_data"},
                   parts |-> {session_state.app_data.apqp_data[i].Part_Number :
                                 i \in DOMAIN session_state.app_data.apqp_data}]
       /\ visited' = visited \cup {"apqp_ppap_tracker"}
       /\ UNCHANGED <<spc_df, limits, process_data, capability, input_df, sliders, npi,
                      session_state, rng, cache>>

\* The lot IDs typed into the 8D form, and the values hash() gives them
\* (Python salts str hashes per process).
LotIdInputs == {"A-LOT-7891", "L-110"}
HashValues == {0, 13}

\* A slip: the two keys set on every run, the tests of lines 17 and 19 left
\* out.
InitKeys_Unconditional(ss) ==
    Put(Put(ss, "traceability_run", FALSE), "traced_lot_id", "")

\* Lines 17-20: traceability_run = False and traced_lot_id = "" for the
\* keys the session does not hold yet.
InitKeys(ss) ==
    Put(Put(ss, "traceability_run",
            IF "traceability_run" \in DOMAIN ss THEN ss.traceability_run ELSE FALSE),
        "traced_lot_id",
        IF "traced_lot_id" \in DOMAIN ss THEN ss.traced_lot_id ELSE "")

\* A slip: the flag raised and the lot ID of the form not stored.
OnSubmit_FlagOnly(ss, lot_id_input) == Put(ss, "traceability_run", TRUE)

\* if submitted: lines 91-92
OnSubmit(ss, lot_id_input) ==
    Put(Put(ss, "traceability_run", TRUE), "traced_lot_id", lot_id_input)

\* pages/failure_analysis_hub.py, with the 8D form submitted or not.  The
\* arithmetic of lines 39-41 is run on the table spc_df; the table that
\* generate_spc_data returns, whose sums are beyond exact arithmetic here,
\* is kept in page.spc_df.  page.form is the lot ID of the form when the run
\* is one the form's button started, page.panel the lot the traceability
\* panel names when line 96 shows it.
RenderFailureHub ==
    \/ Stopped("failure_analysis_hub")
    \/ /\ AppDataLoaded(session_state)
       /\ \E submitted \in BOOLEAN, lot_id_input \in LotIdInputs, h \in HashValues :
             LET keyed == InitKeys(session_state)
                 spc   == IF "generate_spc_data" \in DOMAIN cache
                          THEN [df |-> cache.generate_spc_data, rng |-> rng]
                          ELSE generate_spc_data(rng)
                 after == IF submitted THEN OnSubmit(keyed, lot_id_input) ELSE keyed
             IN  /\ session_state' = after
                 /\ cache' = Put(cache, "generate_spc_data", spc.df)
                 /\ limits' = ControlLimits(spc_df)
                 /\ rng' = IF after.traceability_run
                           THEN After(seed(spc.rng, h), 1)
                           ELSE spc.rng
                 /\ page' = [name   |-> "failure_analysis_hub",
                             status |-> "ok",
                             read   |-> {"failures", "suppliers"},
                             spc_df |-> spc.df,
                             form   |-> IF submitted THEN <<lot_id_input>> ELSE <<>>,
                             panel  |-> IF after.traceability_run
                                        THEN <<after.traced_lot_id>> ELSE <<>>]
       /\ visited' = visited \cup {"failure_analysis_hub"}
       /\ UNCHANGED <<spc_df, process_data, capability, input_df, sliders, npi>>

\* pages/npi_and_sourcing.py: the decision tab, then the audit tab, which
\* draws audit_progress for the supplier selected first (line 156).
RenderNpiSourcing ==
    \/ Stopped("npi_and_sourcing")
    \/ /\ AppDataLoaded(session_state)
       /\ npi' \in DecisionTab(input_df, sliders)
       /\ rng' = IF npi'.status = "ok" THEN After(rng, 1) ELSE rng
       /\ page' = [name |-> "npi_and_sourcing", status |-> npi'.status, read |-> {}]
       /\ visited' = visited \cup {"npi_and_sourcing"}
       /\ UNCHANGED <<spc_df, limits, process_data, capability, input_df, sliders,
                      session_state, cache>>

\* The keys of app_data that lines 26-29 of supplier_deep_dive.py read.
DeepDiveKeys == <<"suppliers", "foundry_perf", "osat_perf", "failures">>

\* pages/supplier_deep_dive.py: the unpacking of lines 25-29 raises KeyError
\* at the first key that app_data does not hold, and the run ends there.
RenderDeepDive ==
    \/ Stopped("supplier_deep_dive")
    \/ /\ AppDataLoaded(session_state)
       /\ LET missing == {i \in 1..Len(DeepDiveKeys) :
                             DeepDiveKeys[i] \notin DOMAIN session_state.app_data}
              first   == CHOOSE i \in missing : \A j \in missing : i <= j
          IN  /\ missing # {}
              /\ page' = [name   |-> "supplier_deep_dive",
                          status |-> "KeyError",
                          read   |-> {DeepDiveKeys[i] : i \in 1..first},
                          key    |-> DeepDiveKeys[first]]
       /\ visited' = visited \cup {"supplier_deep_dive"}
       /\ UNCHANGED <<spc_df, limits, process_data, capability, input_df, sliders, npi,
                      session_state, rng, cache>>

\* The tables the p-chart arithmetic is run on in a session.
SessionLotTables == {ScenarioSamples}

InitSession ==
    /\ session_state = <<>>
    /\ rng \in [mult : Multipliers, state : InitialStates]
    /\ cache = <<>>
    /\ page = NotRun
    /\ visited = {}
    /\ spc_df \in SessionLotTables
    /\ limits = NotRun
    /\ process_data = <<>>
    /\ capability = NotRun
    /\ input_df = get_sourcing_data
    /\ sliders = SliderDefaults
    /\ npi = NotRun

NextSession ==
    \/ RenderCommandCenter
    \/ RenderApqpTracker
    \/ RenderFailureHub
    \/ RenderNpiSourcing
    \/ RenderDeepDive

\* A session of the first user of a freshly started server.
SpecSession == InitSession /\ [][NextSession]_vars

---------------------------------------------------------------------------
(* Claims about the session, checked under SpecSession.                    *)

\* The failure-analysis page has run past its guard.
HubRendered == page.status = "ok" /\ page.name = "failure_analysis_hub"

C13_AppDataNotMutated ==
    AppDataLoaded(session_state) => session_state.app_data = cache.generate_data

\* C18: every lot of the generated table has a positive lot size and
\* 0 <= defects <= lot_size, the two excursion lots included, and its
\* proportion defective is defects / lot_size, within [0, 1].
C18_GeneratedLotsValid ==
    HubRendered =>
        \A i \in 1..Len(page.spc_df) :
            LET lot == page.spc_df[i]
            IN  /\ lot.lot_size > 0
                /\ 0 <= lot.defects /\ lot.defects <= lot.lot_size
                /\ lot.p = FNum(Rat(lot.defects, lot.lot_size))
                /\ 0 <= lot.p.q.n /\ lot.p.q.n <= lot.p.q.d

\* The generated table, with its 25 lots and the two excursions, is on the
\* page.
C18_Witness ==
    /\ HubRendered
    /\ Len(page.spc_df) = SpcLotCount
    /\ page.spc_df[11].defects = 35 /\ page.spc_df[22].defects = 42
    /\ \E i \in 1..Len(page.spc_df) : page.spc_df[i].lot_size > 1000

\* C19: a sub-page runs past its guard only if the main page has run
\* earlier in the session; otherwise it shows the error and stops, having
\* read nothing of app_data and leaving session state as it was.
C19_GuardedSubPages ==
    [][ page'.name \in SubPages =>
            IF HomePage \in visited
            THEN page'.status # "stopped" /\ AppDataLoaded(session_state)
            ELSE /\ page'.status = "stopped"
                 /\ page'.read = {}
                 /\ session_state' = session_state ]_vars

\* Two or more sub-pages have been opened before the main page; the last
\* one stopped at its guard and the session holds no key.
C19_Witness ==
    /\ page.status = "stopped" /\ page.name \in SubPages
    /\ Cardinality(visited) >= 2 /\ HomePage \notin visited
    /\ DOMAIN session_state = {}

\* C20: once app_data is loaded, every key a page reads from it is present:
\* no page ends in a KeyError.
C20_EveryKeyPresent ==
    (AppDataLoaded(session_state) /\ page.status # "not_run") =>
        /\ page.status # "KeyError"
        /\ page.read \subseteq DOMAIN session_state.app_data

---------------------------------------------------------------------------
(* Claims about the main page, checked under SpecSession.                  *)

\* The main page has run.
HomeRendered == page.status = "ok" /\ page.name = HomePage

\* The Type that the suppliers table gives the supplier called name.
TypeOf(suppliers, name) ==
    LET i == CHOOSE j \in DOMAIN suppliers : suppliers[j].Supplier = name
    IN  suppliers[i].Type

\* C21: the aggregate DPPM of every day of the trend, and the KPI taken from
\* its last day, is the mean over the rows of OSAT-type suppliers alone: no
\* row of a Foundry-type supplier enters it.
C21_OsatRowsOnly ==
    HomeRendered =>
        LET app_data == session_state.app_data
            osat     == SelectSeq(app_data.performance_data,
                           LAMBDA r : TypeOf(app_data.suppliers, r.Supplier) = "OSAT")
        IN  /\ \A k \in DOMAIN page.agg_perf_30d :
                  page.agg_perf_30d[k].DPPM =
                      GroupMean(SelectSeq(osat,
                                    LAMBDA r : r.Date = page.agg_perf_30d[k].Date),
                                "DPPM")
            /\ page.latest_dppm =
                  GroupMean(SelectSeq(osat, LAMBDA r : r.Date = PerfDays), "DPPM")

\* The health scores a supplier can have: "out of 100" (line 91).
HealthScores == 0..100

\* The status the claim gives a score.
StatusOf(score) ==
    CHOOSE st \in {"Critical", "Warning", "Healthy"} :
        /\ st = "Critical" <=> score < 70
        /\ st = "Warning"  <=> (70 <= score /\ score < 90)
        /\ st = "Healthy"  <=> score >= 90

\* The cell colour the claim gives a status.
ColourOf(status) ==
    CASE status = "Critical" -> "indianred"
      [] status = "Warning"  -> "orange"
      [] status = "Healthy"  -> "mediumseagreen"

\* C27: every health score has exactly one status, Critical below 70,
\* Warning from 70 to below 90, Healthy from 90, and the colour of its
\* scorecard cell is the one of that status: indianred for Critical, orange
\* for Warning, mediumseagreen for Healthy.  On the page: each supplier's
\* Status and the colour of its Health_Score cell agree in this way.
C27_StatusAndColourAgree ==
    /\ \A score \in HealthScores :
          /\ Cardinality({st \in {"Critical", "Warning", "Healthy"} :
                              /\ st = "Critical" <=> score < 70
                              /\ st = "Warning"  <=> (70 <= score /\ score < 90)
                              /\ st = "Healthy"  <=> score >= 90}) = 1
          /\ get_status(score) = StatusOf(score)
          /\ color_health(score) = ColourOf(get_status(score))
    /\ HomeRendered =>
          \A i \in DOMAIN page.scorecard :
              LET row == page.scorecard[i]
                  sup == session_state.app_data.suppliers[i]
              IN  /\ sup.Supplier = row.Supplier
                  /\ sup.Status = StatusOf(row.Health_Score)
                  /\ row.colour = ColourOf(sup.Status)

\* The scorecard is on the page with a cell of each colour and the
\* suppliers table holds each status.
C27_Witness ==
    /\ HomeRendered
    /\ {page.scorecard[i].colour : i \in DOMAIN page.scorecard}
          = {"indianred", "orange", "mediumseagreen"}
    /\ {session_state.app_data.suppliers[i].Status :
            i \in DOMAIN session_state.app_data.suppliers}
          = {"Critical", "Warning", "Healthy"}

---------------------------------------------------------------------------
(* Claims about the 8D form and the traceability panel, checked under      *)
(* SpecSession.                                                            *)

\* The flag as line 96 would read it; a session that has not initialised it
\* has not raised it.
TraceabilityRun(ss) == "traceability_run" \in DOMAIN ss /\ ss.traceability_run

\* The lot ID held in the session, "" until the page has initialised it.
TracedLotId(ss) == IF "traced_lot_id" \in DOMAIN ss THEN ss.traced_lot_id ELSE ""

\* C23: traceability_run starts False, becomes True only in a run of the
\* failure-analysis page in which the form is submitted, and never returns
\* to False; a run shows the traceability panel exactly when the flag is
\* True, so none is shown before the first submission.
C23_TraceabilityLatch ==
    [][ /\ TraceabilityRun(session_state) => TraceabilityRun(session_state')
        /\ (~TraceabilityRun(session_state) /\ TraceabilityRun(session_state')) =>
              /\ page'.status = "ok" /\ page'.name = "failure_analysis_hub"
              /\ page'.form # <<>>
        /\ (page'.status = "ok" /\ page'.name = "failure_analysis_hub") =>
              /\ "traceability_run" \in DOMAIN session_state'
              /\ (page'.panel # <<>>) <=> session_state'.traceability_run
              /\ ("traceability_run" \notin DOMAIN session_state /\ page'.form = <<>>) =>
                    session_state'.traceability_run = FALSE ]_vars

\* A run without a submission, after an earlier submission: the flag is
\* still True and the panel is shown.
C23_Witness ==
    /\ HubRendered
    /\ page.form = <<>>
    /\ session_state.traceability_run
    /\ page.panel # <<>>

\* C24: a run in which the form is submitted leaves the lot ID of the form in
\* traced_lot_id; every other run, of this page or another, leaves
\* traced_lot_id and traceability_run as they were ("" and False when the
\* session did not hold them yet); the lot the panel names is traced_lot_id.
C24_TracedLotIsLastSubmitted ==
    [][ IF page'.status = "ok" /\ page'.name = "failure_analysis_hub"
        THEN /\ page'.form # <<>> => session_state'.traced_lot_id = page'.form[1]
             /\ page'.form = <<>> =>
                   /\ session_state'.traced_lot_id = TracedLotId(session_state)
                   /\ session_state'.traceability_run = TraceabilityRun(session_state)
             /\ page'.panel # <<>> => page'.panel = <<session_state'.traced_lot_id>>
        ELSE /\ TracedLotId(session_state') = TracedLotId(session_state)
             /\ TraceabilityRun(session_state') = TraceabilityRun(session_state) ]_vars

\* A run without a submission in a session whose last submission entered a
\* lot ID other than the form's default: the panel still names that lot.
C24_Witness ==
    /\ HubRendered
    /\ page.form = <<>>
    /\ session_state.traced_lot_id = "L-110"
    /\ page.panel = <<"L-110">>

\* The suppliers table without the Status column line 189 adds.
WithoutStatus(suppliers) ==
    [i \in DOMAIN suppliers |->
        [c \in DOMAIN suppliers[i] \ {"Status"} |-> suppliers[i][c]]]

\* C25: app_data is stored by the main page alone and only in a run that
\* finds the session without it; once the entry is there no run of any page
\* replaces or changes it, and its tables are the ones generate_data()
\* returned (the suppliers table with the Status column of line 189).
C25_AppDataStoredOnce ==
    [][ /\ (page'.status = "ok" /\ page'.name = HomePage) =>
              (page'.stored <=> "app_data" \notin DOMAIN session_state)
        /\ ("app_data" \notin DOMAIN session_state /\ "app_data" \in DOMAIN session_state')
              => (page'.status = "ok" /\ page'.name = HomePage)
        /\ "app_data" \in DOMAIN session_state =>
              /\ "app_data" \in DOMAIN session_state'
              /\ session_state'.app_data = session_state.app_data
        /\ "app_data" \in DOMAIN session_state' =>
              session_state'.app_data =
                  [cache'.generate_data EXCEPT
                      !.suppliers = AssignStatus(cache'.generate_data.suppliers)] ]_vars

\* The main page has run again in a session that held app_data, after other
\* pages were rendered, and has stored nothing.
C25_Witness ==
    /\ HomeRendered
    /\ ~page.stored
    /\ Cardinality(visited) >= 3
    /\ "app_data" \in DOMAIN session_state

---------------------------------------------------------------------------
(* A further claim about the decision tab, checked under SpecNpiPage.      *)

---------------------------------------------------------------------------
(* A claim about the weighted score, checked under SpecMetrics.            *)

\* The four category scores of a row of final_df, in tenths.
SubScores(r) == {r[c] : c \in ScoreColumns}

\* Every category score of the row is a number between 0 and 100.
SubScoresWithin(r) == r.NaN = {} /\ \A x \in SubScores(r) : 0 <= x /\ x <= 1000

\* C26: with four integer weights in 0..100 that sum to 100, the weighted
\* score of every candidate whose category scores are all in [0, 100] is in
\* [0, 100] and is no less than the smallest and no more than the largest
\* of that candidate's category scores.
C26_WeightedScoreBetween ==
    (npi.status = "ok" /\ SliderTotal = 100 /\ \A k \in SliderKeys : sliders[k] \in 0..100) =>
        \A i \in 1..Len(npi.final_df) :
            LET r == npi.final_df[i]
            IN  SubScoresWithin(r) =>
                    /\ RLeq(RZero, r.Weighted_Score)
                    /\ RLeq(r.Weighted_Score, RInt(100))
                    /\ \E x \in SubScores(r) : RLeq(Rat(x, 10), r.Weighted_Score)
                    /\ \E x \in SubScores(r) : RLeq(r.Weighted_Score, Rat(x, 10))

\* A scored table with a candidate whose four category scores are all 100
\* and whose weighted score is 100, and a candidate of unequal category
\* scores whose weighted score is strictly between two of them.
C26_Witness ==
    /\ npi.status = "ok"
    /\ \E i \in 1..Len(npi.final_df) :
          /\ SubScores(npi.final_df[i]) = {1000}
          /\ npi.final_df[i].Weighted_Score = RInt(100)
    /\ \E i \in 1..Len(npi.final_df) :
          /\ SubScoresWithin(npi.final_df[i])
          /\ \E x, y \in SubScores(npi.final_df[i]) :
                /\ RLess(Rat(x, 10), npi.final_df[i].Weighted_Score)
                /\ RLess(npi.final_df[i].Weighted_Score, Rat(y, 10))

===========================================================================
